---- MODULE Spec2Model ----
(***************************************************************************)
(* Model of include/dbus/properties.hpp: DbusInterface, DbusObject and     *)
(* DbusObjectServer.  The registry (objects, their interface tables, the   *)
(* interfaces' method and property tables), the two function-static signal *)
(* endpoints, the three one-shot filters and the messages sent on the      *)
(* connection by the last operation are the state.                         *)
(***************************************************************************)
EXTENDS Integers, Sequences, FiniteSets, TLC

VARIABLES objects, ifaces, pc_endpoint, ia_endpoint, armed, sent, invoked,
          last, steps, running

vars == <<objects, ifaces, pc_endpoint, ia_endpoint, armed, sent, invoked,
          last, steps, running>>

(* ------------------------------ bounds --------------------------------- *)
MaxSteps == 4
MaxObjects == 2
MaxIfaces == 3
MaxEntries == 2
MaxArgs == 2

(* ------------------------------ domains -------------------------------- *)
\* object paths are strings: sequences of characters
PathA == <<"/", "a">>
PathAB == <<"/", "a", "/", "b">>
PathAb == <<"/", "a", "b">>
Paths == {PathA, PathAB, PathAb}

PropsIface == "org.freedesktop.DBus.Properties"
UserIface == "I"
UnknownIface == "NoSuchIface"
\* flat_map<std::string, ...> iterates in key order
IfaceOrder == <<"I", "org.freedesktop.DBus.Properties">>
IfaceNames == {UserIface, PropsIface}

PropNames == {"a", "c"}
PropOrder == <<"a", "c">>
Values == {1, 3}
Entries == PropNames \X Values

UserMember == "M"
UnknownMember == "NoSuchMember"

Modes == {"VALUE_CHANGE_ONLY", "FORCE"}

\* element_signature codes of handler parameter and result types, and the
\* type lists of a handler
Sigs == {"s", "i"}
TypeLists == UNION {[1..n -> Sigs] : n \in 0..MaxArgs}

EntryLists == UNION {[1..n -> Entries] : n \in 0..MaxEntries}
\* the entry lists the program passes while the whole server runs
SomeLists == {<<<<"a", 1>>, <<"c", 3>>>>}

EmptyMap == [x \in {} |-> 0]

NoMsg == [path |-> <<>>, interface |-> "", member |-> "", args |-> <<>>]

\* method-call messages a peer may send; the Properties members carry the
\* arguments their handlers unpack (for an interface no object has, one
\* choice of the remaining arguments)
PropsMsgs ==
  {[path |-> p, interface |-> PropsIface, member |-> "Get", args |-> <<i, n>>] :
     p \in Paths, i \in IfaceNames, n \in PropNames}
  \cup
  {[path |-> p, interface |-> PropsIface, member |-> "GetAll", args |-> <<i>>] :
     p \in Paths, i \in IfaceNames \cup {UnknownIface}}
  \cup
  {[path |-> p, interface |-> PropsIface, member |-> "Set", args |-> <<i, e[1], e[2]>>] :
     p \in Paths, i \in IfaceNames, e \in Entries}
  \cup
  {[path |-> p, interface |-> PropsIface, member |-> mb,
    args |-> <<UnknownIface, "a", 1>>] : p \in Paths, mb \in {"Get", "Set"}}
PlainMsgs ==
  {[path |-> p, interface |-> i, member |-> UserMember, args |-> <<>>] :
     p \in Paths, i \in IfaceNames \cup {UnknownIface}}
  \cup
  {[path |-> p, interface |-> UserIface, member |-> UnknownMember, args |-> <<>>] :
     p \in Paths}
IntrospectMsgs ==
  {[path |-> p, interface |-> "org.freedesktop.DBus.Introspectable",
    member |-> "Introspect", args |-> <<>>] : p \in Paths \cup {<<"/">>}}
ManagedMsgs ==
  {[path |-> <<"/">>, interface |-> "org.freedesktop.DBus.ObjectManager",
    member |-> "GetManagedObjects", args |-> <<>>]}
\* the predicate of method_filter accepts every method call
Msgs == PropsMsgs \cup PlainMsgs \cup IntrospectMsgs \cup ManagedMsgs

\* std::string::npos, and the string operations get_xml_for_path uses
Npos == 2147483647
Min(a, b) == IF a < b THEN a ELSE b
starts_with(str, prefix) ==
  Len(prefix) <= Len(str) /\ SubSeq(str, 1, Len(prefix)) = prefix
RECURSIVE find(_, _, _)
find(str, ch, pos) ==
  IF pos >= Len(str) THEN Npos
  ELSE IF str[pos + 1] = ch THEN pos ELSE find(str, ch, pos + 1)
substr(str, pos, n) == SubSeq(str, pos + 1, pos + Min(n, Len(str) - pos))

(* --------------------------- DbusInterface ----------------------------- *)
\* mutant: the loop without the comparison against the stored value
RECURSIVE ValueChangeOnlyMut(_, _, _)
ValueChangeOnlyMut(properties_map, v, updates) ==
  IF v = <<>>
  THEN [properties_map |-> properties_map, updates |-> updates]
  ELSE ValueChangeOnlyMut((Head(v)[1] :> Head(v)[2]) @@ properties_map,
                          Tail(v), Append(updates, Head(v)))

\* the loop of set_properties in mode VALUE_CHANGE_ONLY
RECURSIVE ValueChangeOnly(_, _, _)
ValueChangeOnly(properties_map, v, updates) ==
  IF v = <<>>
  THEN [properties_map |-> properties_map, updates |-> updates]
  ELSE LET property == Head(v)
           first == property[1]
           second == property[2]
       IN IF first \in DOMAIN properties_map
          THEN IF properties_map[first] # second
               THEN ValueChangeOnly([properties_map EXCEPT ![first] = second],
                                    Tail(v), Append(updates, <<first, second>>))
               ELSE ValueChangeOnly(properties_map, Tail(v), updates)
          ELSE ValueChangeOnly((first :> second) @@ properties_map,
                               Tail(v), Append(updates, <<first, second>>))

\* mutant: FORCE diffs like VALUE_CHANGE_ONLY
ComputeUpdatesMut(properties_map, v, update_mode) ==
  ValueChangeOnly(properties_map, v, <<>>)

\* the mode switch of set_properties: FORCE copies v into updates and leaves
\* properties_map alone
ComputeUpdates(properties_map, v, update_mode) ==
  IF update_mode = "FORCE"
  THEN [properties_map |-> properties_map, updates |-> v]
  ELSE ValueChangeOnly(properties_map, v, <<>>)

\* a function-local `const static dbus::endpoint`: constructed by the first
\* call that reaches it, from that call's object_name, and never again
StaticEndpoint(endpoint, object_name) ==
  IF endpoint = <<>> THEN <<object_name>> ELSE endpoint

PropertiesChanged(path, interface_name, updates) ==
  [type |-> "signal", path |-> path,
   interface |-> "org.freedesktop.DBus.Properties",
   member |-> "PropertiesChanged",
   body |-> <<interface_name, updates, <<>>>>]

\* whether set_properties sends the signal it has packed
SendsPropertiesChanged(updates) == TRUE

\* mutant: the table is rebuilt from the entries that were just updated
set_propertiesMut(hp, pc, i, v, update_mode) ==
  LET r == ComputeUpdates(hp[i].properties_map, v, update_mode)
      ep == StaticEndpoint(pc, hp[i].object_name)
      names == {r.updates[k][1] : k \in 1..Len(r.updates)}
                 \cap DOMAIN r.properties_map
  IN [ifaces |-> [hp EXCEPT ![i].properties_map =
                    [n \in names |-> r.properties_map[n]]],
      pc_endpoint |-> ep,
      updates |-> r.updates,
      sent |-> <<PropertiesChanged(ep[1], hp[i].interface_name, r.updates)>>]

\* mutant: the table is kept per interface name, so every interface of that
\* name is written
set_propertiesByName(hp, pc, i, v, update_mode) ==
  LET r == ComputeUpdates(hp[i].properties_map, v, update_mode)
      ep == StaticEndpoint(pc, hp[i].object_name)
  IN [ifaces |-> [j \in 1..Len(hp) |->
                    IF hp[j].interface_name = hp[i].interface_name
                    THEN [hp[j] EXCEPT !.properties_map = r.properties_map]
                    ELSE hp[j]],
      pc_endpoint |-> ep,
      updates |-> r.updates,
      sent |-> <<PropertiesChanged(ep[1], hp[i].interface_name, r.updates)>>]

\* DbusInterface::set_properties on interface i of the heap hp
set_properties(hp, pc, i, v, update_mode) ==
  LET r == ComputeUpdates(hp[i].properties_map, v, update_mode)
      ep == StaticEndpoint(pc, hp[i].object_name)
  IN [ifaces |-> [hp EXCEPT ![i].properties_map = r.properties_map],
      pc_endpoint |-> ep,
      updates |-> r.updates,
      sent |-> IF SendsPropertiesChanged(r.updates)
               THEN <<PropertiesChanged(ep[1], hp[i].interface_name, r.updates)>>
               ELSE <<>>]

\* DbusInterface::get_properties_map, as the entries in iteration order
RECURSIVE MapEntries(_, _)
MapEntries(properties_map, order) ==
  IF order = <<>> THEN <<>>
  ELSE IF Head(order) \in DOMAIN properties_map
       THEN <<<<Head(order), properties_map[Head(order)]>>>>
            \o MapEntries(properties_map, Tail(order))
       ELSE MapEntries(properties_map, Tail(order))

get_properties_map(hp, i) == MapEntries(hp[i].properties_map, PropOrder)

\* dbus_methods.emplace(name, method): an existing key is kept
Emplace(dbus_methods, name, method) ==
  IF name \in DOMAIN dbus_methods THEN dbus_methods
  ELSE (name :> method) @@ dbus_methods

(* ----------------------------- DbusObject ------------------------------ *)
InterfacesAdded(path, object_name, interface_name, prop_dict) ==
  [type |-> "signal", path |-> path,
   interface |-> "org.freedesktop.DBus.ObjectManager",
   member |-> "InterfacesAdded",
   body |-> <<object_name, <<<<interface_name, prop_dict>>>>>>]

\* mutant: the property dictionary of the signal is never filled
register_interfaceMut(objs, hp, ia, o, i) ==
  LET ep == StaticEndpoint(ia, objs[o].object_name)
  IN [objects |-> [objs EXCEPT ![o].interfaces =
                     (hp[i].interface_name :> i) @@ @],
      ifaces |-> [hp EXCEPT ![i].object_name = objs[o].object_name],
      ia_endpoint |-> ep,
      sent |-> <<InterfacesAdded(ep[1], objs[o].object_name,
                                 hp[i].interface_name, <<>>)>>]

\* DbusObject::register_interface: interface i of the heap into object o
register_interface(objs, hp, ia, o, i) ==
  LET ep == StaticEndpoint(ia, objs[o].object_name)
  IN [objects |-> [objs EXCEPT ![o].interfaces =
                     (hp[i].interface_name :> i) @@ @],
      ifaces |-> [hp EXCEPT ![i].object_name = objs[o].object_name],
      ia_endpoint |-> ep,
      sent |-> <<InterfacesAdded(ep[1], objs[o].object_name,
                                 hp[i].interface_name,
                                 get_properties_map(hp, i))>>]

\* std::make_shared<DbusInterface>(name, conn)
NewInterface(name) ==
  [interface_name |-> name, object_name |-> <<>>,
   properties_map |-> EmptyMap, dbus_methods |-> EmptyMap]

\* the three closures the constructor registers capture the object by
\* reference: obj is the object whose interfaces and properties_iface they read
PropertiesMethods(o) ==
  [mb \in {"Get", "GetAll", "Set"} |-> [kind |-> mb, obj |-> o, throws |-> FALSE]]

\* the interface whose table the GetAll closure reads once it has found
\* interface_name in the object's interfaces
GetAllSource(objs, o, interface_name) == objs[o].properties_iface

\* mutant: the Get closure reads the table of properties_iface
HandlerGetMut(h, args, objs, hp, pc) ==
  LET interfaces == objs[h.obj].interfaces
      quiet == [ifaces |-> hp, pc_endpoint |-> pc, sent |-> <<>>]
  IN CASE h.kind = "user" ->
            IF h.throws
            THEN [threw |-> "handler fault", result |-> <<>>] @@ quiet
            ELSE [threw |-> "", result |-> <<>>] @@ quiet
       [] h.kind = "Get" ->
            IF args[1] \notin DOMAIN interfaces
            THEN [threw |-> "interface not found", result |-> <<>>] @@ quiet
            ELSE LET properties_map == hp[objs[h.obj].properties_iface].properties_map
                 IN IF args[2] \notin DOMAIN properties_map
                    THEN [threw |-> "property not found", result |-> <<>>] @@ quiet
                    ELSE [threw |-> "", result |-> <<properties_map[args[2]]>>]
                         @@ quiet
       [] h.kind = "GetAll" ->
            IF args[1] \notin DOMAIN interfaces
            THEN [threw |-> "interface not found", result |-> <<>>] @@ quiet
            ELSE [threw |-> "",
                  result |-> <<get_properties_map(hp,
                                  GetAllSource(objs, h.obj, args[1]))>>] @@ quiet
       [] h.kind = "Set" ->
            IF args[1] \notin DOMAIN interfaces
            THEN [threw |-> "interface not found", result |-> <<>>] @@ quiet
            ELSE LET r == set_properties(hp, pc, interfaces[args[1]],
                                         <<<<args[2], args[3]>>>>,
                                         "VALUE_CHANGE_ONLY")
                 IN [threw |-> "", result |-> <<>>, ifaces |-> r.ifaces,
                     pc_endpoint |-> r.pc_endpoint, sent |-> r.sent]

\* the closures "Get", "GetAll", "Set" and a user handler, run on the
\* unpacked arguments: the fault they throw, or the result tuple, and the
\* state they leave
Handler(h, args, objs, hp, pc) ==
  LET interfaces == objs[h.obj].interfaces
      quiet == [ifaces |-> hp, pc_endpoint |-> pc, sent |-> <<>>]
  IN CASE h.kind = "user" ->
            IF h.throws
            THEN [threw |-> "handler fault", result |-> <<>>] @@ quiet
            ELSE [threw |-> "", result |-> <<>>] @@ quiet
       [] h.kind = "Get" ->
            IF args[1] \notin DOMAIN interfaces
            THEN [threw |-> "interface not found", result |-> <<>>] @@ quiet
            ELSE LET properties_map == hp[interfaces[args[1]]].properties_map
                 IN IF args[2] \notin DOMAIN properties_map
                    THEN [threw |-> "property not found", result |-> <<>>] @@ quiet
                    ELSE [threw |-> "", result |-> <<properties_map[args[2]]>>]
                         @@ quiet
       [] h.kind = "GetAll" ->
            IF args[1] \notin DOMAIN interfaces
            THEN [threw |-> "interface not found", result |-> <<>>] @@ quiet
            ELSE [threw |-> "",
                  result |-> <<get_properties_map(hp,
                                  GetAllSource(objs, h.obj, args[1]))>>] @@ quiet
       [] h.kind = "Set" ->
            IF args[1] \notin DOMAIN interfaces
            THEN [threw |-> "interface not found", result |-> <<>>] @@ quiet
            ELSE LET r == set_properties(hp, pc, interfaces[args[1]],
                                         <<<<args[2], args[3]>>>>,
                                         "VALUE_CHANGE_ONLY")
                 IN [threw |-> "", result |-> <<>>, ifaces |-> r.ifaces,
                     pc_endpoint |-> r.pc_endpoint, sent |-> r.sent]

\* an error reply to m (the code builds none)
new_error(m, name) ==
  [type |-> "error", path |-> m.path, interface |-> m.interface,
   member |-> m.member, body |-> <<name>>]

new_return(m, body) ==
  [type |-> "method_return", path |-> m.path, interface |-> m.interface,
   member |-> m.member, body |-> body]

\* what LambdaDbusMethod::call does with a fault of the handler: nothing
\* catches it, no message is built for it
OnThrow(m, r) == <<>>

\* LambdaDbusMethod::call: unpack, apply, new_return, pack, send
LambdaCall(h, m, objs, hp, pc) ==
  LET r == Handler(h, m.args, objs, hp, pc)
  IN IF r.threw # ""
     THEN [threw |-> r.threw, ifaces |-> r.ifaces,
           pc_endpoint |-> r.pc_endpoint, sent |-> r.sent \o OnThrow(m, r)]
     ELSE [threw |-> "", ifaces |-> r.ifaces, pc_endpoint |-> r.pc_endpoint,
           sent |-> Append(r.sent, new_return(m, r.result))]

Quiet(hp, pc) ==
  [threw |-> "", ifaces |-> hp, pc_endpoint |-> pc, sent |-> <<>>,
   invoked |-> <<>>]

\* mutant: an unknown member is answered with an error
InterfaceCallMut(i, m, objs, hp, pc) ==
  IF m.member \in DOMAIN hp[i].dbus_methods
  THEN LambdaCall(hp[i].dbus_methods[m.member], m, objs, hp, pc)
       @@ [invoked |-> <<[iface |-> i, member |-> m.member]>>]
  ELSE [Quiet(hp, pc) EXCEPT !.sent = <<new_error(m, "UnknownMethod")>>]

\* DbusInterface::call: dbus_methods.find(m.get_member())
InterfaceCall(i, m, objs, hp, pc) ==
  IF m.member \in DOMAIN hp[i].dbus_methods
  THEN LambdaCall(hp[i].dbus_methods[m.member], m, objs, hp, pc)
       @@ [invoked |-> <<[iface |-> i, member |-> m.member]>>]
  ELSE Quiet(hp, pc)

\* DbusObject::call: interfaces.find(m.get_interface())
ObjectCall(o, m, objs, hp, pc) ==
  IF m.interface \in DOMAIN objs[o].interfaces
  THEN InterfaceCall(objs[o].interfaces[m.interface], m, objs, hp, pc)
  ELSE Quiet(hp, pc)

(* -------------------------- DbusObjectServer --------------------------- *)
\* mutant: the scan matches by prefix
RECURSIVE FindObjectMut(_, _, _)
FindObjectMut(objs, path, k) ==
  IF k > Len(objs) THEN 0
  ELSE IF starts_with(objs[k].object_name, path) THEN k
       ELSE FindObjectMut(objs, path, k + 1)

\* mutant: the scan has no break, the last object with the path is called
RECURSIVE FindObjectLast(_, _, _)
FindObjectLast(objs, path, k) ==
  IF k > Len(objs) THEN 0
  ELSE LET later == FindObjectLast(objs, path, k + 1)
       IN IF later # 0 THEN later
          ELSE IF objs[k].object_name = path THEN k ELSE 0

\* the scan of on_method_call: the first object whose object_name == path,
\* 0 when the loop ends without a match
RECURSIVE FindObject(_, _, _)
FindObject(objs, path, k) ==
  IF k > Len(objs) THEN 0
  ELSE IF objs[k].object_name = path THEN k
       ELSE FindObject(objs, path, k + 1)

\* mutant: the error code is not tested
DispatchMut(ec, m, objs, hp, pc) ==
  LET o == FindObject(objs, m.path, 1)
  IN IF o = 0 THEN Quiet(hp, pc) ELSE ObjectCall(o, m, objs, hp, pc)

\* the body of on_method_call up to the re-arm
Dispatch(ec, m, objs, hp, pc) ==
  IF ec THEN Quiet(hp, pc)
  ELSE LET o == FindObject(objs, m.path, 1)
       IN IF o = 0 THEN Quiet(hp, pc) ELSE ObjectCall(o, m, objs, hp, pc)

\* method_filter->async_dispatch(...) is the last statement of
\* on_method_call: a fault that leaves the callback skips it
Rearmed(threw) == threw = ""

\* element_signature of the unpacked parameters and of the result tuple
HandlerTypes(h) ==
  CASE h.kind = "Get" -> [in |-> <<"s", "s">>, out |-> <<"v">>]
    [] h.kind = "GetAll" -> [in |-> <<"s">>, out |-> <<"a{sv}">>]
    [] h.kind = "Set" -> [in |-> <<"s", "s", "v">>, out |-> <<>>]
    [] h.kind = "typed" -> [in |-> h.in, out |-> h.out]
    [] OTHER -> [in |-> <<>>, out |-> <<>>]

\* std::to_string for the indices that occur
to_string(n) == CASE n = 0 -> "0" [] n = 1 -> "1" [] n = 2 -> "2" [] OTHER -> "?"

\* mutant: the index of the name is never advanced
RECURSIVE arg_typesMut(_, _, _, _)
arg_typesMut(in, t, I, v) ==
  IF I = Len(t) THEN v
  ELSE arg_typesMut(in, t, I + 1,
         Append(v, IF in
                   THEN [direction |-> "in", name |-> <<"arg_", to_string(0)>>,
                         type |-> t[I + 1]]
                   ELSE [direction |-> "out", name |-> <<"out_", to_string(0)>>,
                         type |-> t[I + 1]]))

RECURSIVE arg_types(_, _, _, _)
arg_types(in, t, I, v) ==
  IF I = Len(t) THEN v
  ELSE arg_types(in, t, I + 1,
         Append(v, IF in
                   THEN [direction |-> "in", name |-> <<"arg_", to_string(I)>>,
                         type |-> t[I + 1]]
                   ELSE [direction |-> "out", name |-> <<"out_", to_string(I)>>,
                         type |-> t[I + 1]]))

get_args(h) ==
  arg_types(FALSE, HandlerTypes(h).out, 0,
            arg_types(TRUE, HandlerTypes(h).in, 0, <<>>))

MemberOrder == <<"Get", "GetAll", "M", "Set">>

RECURSIVE MethodsXml(_, _)
MethodsXml(dbus_methods, order) ==
  IF order = <<>> THEN <<>>
  ELSE IF Head(order) \in DOMAIN dbus_methods
       THEN <<[name |-> Head(order), args |-> get_args(dbus_methods[Head(order)])]>>
            \o MethodsXml(dbus_methods, Tail(order))
       ELSE MethodsXml(dbus_methods, Tail(order))

RECURSIVE PropertiesXml(_)
PropertiesXml(entries) ==
  IF entries = <<>> THEN <<>>
  ELSE <<[name |-> Head(entries)[1], type |-> "i", direction |-> "readwrite"]>>
       \o PropertiesXml(Tail(entries))

\* the <interface> blocks of an object, in the order of its interfaces map
RECURSIVE InterfacesXml(_, _, _)
InterfacesXml(interfaces, hp, order) ==
  IF order = <<>> THEN <<>>
  ELSE IF Head(order) \in DOMAIN interfaces
       THEN <<[tag |-> "interface", name |-> Head(order),
               methods |-> MethodsXml(hp[interfaces[Head(order)]].dbus_methods,
                                      MemberOrder),
               properties |-> PropertiesXml(
                                get_properties_map(hp, interfaces[Head(order)]))]>>
            \o InterfacesXml(interfaces, hp, Tail(order))
       ELSE InterfacesXml(interfaces, hp, Tail(order))

\* the subnode name get_xml_for_path cuts out of object_name
Subnode(object_name, newpath) ==
  LET slash_index == find(object_name, "/", Len(newpath) + 1)
  IN substr(object_name, Len(newpath) + 1, slash_index - Len(newpath) - 1)

\* the loop of get_xml_for_path from object k on
RECURSIVE XmlLoop(_, _, _, _, _, _)
XmlLoop(objs, hp, newpath, k, node_names, xml) ==
  IF k > Len(objs) THEN xml
  ELSE LET object_name == objs[k].object_name
       IN IF object_name = newpath
          THEN XmlLoop(objs, hp, newpath, k + 1, node_names,
                 xml \o <<[tag |-> "interface", name |-> "org.freedesktop.DBus.Peer"],
                          [tag |-> "interface",
                           name |-> "org.freedesktop.DBus.ObjectManager"]>>
                     \o InterfacesXml(objs[k].interfaces, hp, IfaceOrder))
          ELSE IF starts_with(object_name, newpath)
               THEN LET subnode == Subnode(object_name, newpath)
                    IN IF subnode \notin node_names
                       THEN XmlLoop(objs, hp, newpath, k + 1,
                                    node_names \cup {subnode},
                                    Append(xml, [tag |-> "node", name |-> subnode]))
                       ELSE XmlLoop(objs, hp, newpath, k + 1, node_names, xml)
               ELSE XmlLoop(objs, hp, newpath, k + 1, node_names, xml)

get_xml_for_path(objs, hp, path) ==
  LET newpath == IF path = <<"/">> THEN <<>> ELSE path
  IN XmlLoop(objs, hp, newpath, 1, {}, <<>>)

\* mutant: the property dictionaries are left empty
RECURSIVE InterfacesDictMut(_, _, _)
InterfacesDictMut(interfaces, hp, order) ==
  IF order = <<>> THEN <<>>
  ELSE IF Head(order) \in DOMAIN interfaces
       THEN <<<<hp[interfaces[Head(order)]].interface_name, <<>>>>>>
            \o InterfacesDictMut(interfaces, hp, Tail(order))
       ELSE InterfacesDictMut(interfaces, hp, Tail(order))

\* the dict on_get_managed_objects builds
RECURSIVE InterfacesDict(_, _, _)
InterfacesDict(interfaces, hp, order) ==
  IF order = <<>> THEN <<>>
  ELSE IF Head(order) \in DOMAIN interfaces
       THEN <<<<hp[interfaces[Head(order)]].interface_name,
                get_properties_map(hp, interfaces[Head(order)])>>>>
            \o InterfacesDict(interfaces, hp, Tail(order))
       ELSE InterfacesDict(interfaces, hp, Tail(order))

ManagedObjects(objs, hp) ==
  [k \in 1..Len(objs) |->
     <<objs[k].object_name, InterfacesDict(objs[k].interfaces, hp, IfaceOrder)>>]

(* ------------------------------ the state ------------------------------ *)
\* the three filters of the server, and a filter callback that is not running:
\* pc is the statement of the callback to run next (0: none), m the message
\* it was handed, begun and completed count the messages the filter handed
\* over and the ones whose handling (reply included) ended
Filters == {"introspect", "object_manager", "method"}
Idle == [pc |-> 0, m |-> NoMsg, begun |-> 0, completed |-> 0]

NoLast ==
  [op |-> "init", o |-> 0, i |-> 0, v |-> <<>>, mode |-> "", T |-> EmptyMap,
   m |-> NoMsg, ec |-> FALSE, threw |-> "", updates |-> <<>>]

Init ==
  /\ objects = <<>>
  /\ ifaces = <<>>
  /\ pc_endpoint = <<>>
  /\ ia_endpoint = <<>>
  /\ armed = [introspect |-> TRUE, object_manager |-> TRUE, method |-> TRUE]
  /\ sent = <<>>
  /\ invoked = <<>>
  /\ last = NoLast
  /\ steps = 0
  /\ running = [f \in Filters |-> Idle]

\* DbusObjectServer::add_object: the DbusObject constructor (add_interface of
\* the Properties interface, then its three methods), then register_object
add_object(name) ==
  /\ steps < MaxSteps
  /\ Len(objects) < MaxObjects
  /\ Len(ifaces) < MaxIfaces
  /\ LET o == Len(objects) + 1
         i == Len(ifaces) + 1
         x == [object_name |-> name, interfaces |-> EmptyMap,
               properties_iface |-> i]
         r == register_interface(Append(objects, x),
                                 Append(ifaces, NewInterface(PropsIface)),
                                 ia_endpoint, o, i)
     IN /\ objects' = r.objects
        /\ ifaces' = [r.ifaces EXCEPT ![i].dbus_methods = PropertiesMethods(o)]
        /\ ia_endpoint' = r.ia_endpoint
        /\ sent' = r.sent
        /\ last' = [NoLast EXCEPT !.op = "add_object", !.o = o, !.i = i]
  /\ invoked' = <<>>
  /\ steps' = steps + 1
  /\ UNCHANGED running
  /\ UNCHANGED <<pc_endpoint, armed>>

\* DbusObject::add_interface
add_interface(o, name) ==
  /\ steps < MaxSteps
  /\ Len(ifaces) < MaxIfaces
  /\ LET i == Len(ifaces) + 1
         r == register_interface(objects, Append(ifaces, NewInterface(name)),
                                 ia_endpoint, o, i)
     IN /\ objects' = r.objects
        /\ ifaces' = r.ifaces
        /\ ia_endpoint' = r.ia_endpoint
        /\ sent' = r.sent
        /\ last' = [NoLast EXCEPT !.op = "add_interface", !.o = o, !.i = i]
  /\ invoked' = <<>>
  /\ steps' = steps + 1
  /\ UNCHANGED running
  /\ UNCHANGED <<pc_endpoint, armed>>

\* DbusInterface::register_method(name, handler) with a user handler
register_method(i, name, throws) ==
  /\ steps < MaxSteps
  /\ ifaces' = [ifaces EXCEPT ![i].dbus_methods =
                  Emplace(@, name, [kind |-> "user", obj |-> 0, throws |-> throws])]
  /\ ifaces' # ifaces
  /\ sent' = <<>>
  /\ invoked' = <<>>
  /\ last' = [NoLast EXCEPT !.op = "register_method", !.i = i]
  /\ steps' = steps + 1
  /\ UNCHANGED running
  /\ UNCHANGED <<objects, pc_endpoint, ia_endpoint, armed>>

\* DbusInterface::set_properties called by the program
SetProperties(i, v, update_mode) ==
  /\ steps < MaxSteps
  /\ LET r == set_properties(ifaces, pc_endpoint, i, v, update_mode)
     IN /\ ifaces' = r.ifaces
        /\ pc_endpoint' = r.pc_endpoint
        /\ sent' = r.sent
        /\ last' = [NoLast EXCEPT !.op = "set_properties", !.i = i, !.v = v,
                                  !.mode = update_mode,
                                  !.T = ifaces[i].properties_map,
                                  !.updates = r.updates]
  /\ invoked' = <<>>
  /\ steps' = steps + 1
  /\ UNCHANGED running
  /\ UNCHANGED <<objects, ia_endpoint, armed>>

\* DbusInterface::set_property: a change vector of length 1
SetProperty(i, property_name, value, update_mode) ==
  /\ steps < MaxSteps
  /\ LET v == <<<<property_name, value>>>>
         r == set_properties(ifaces, pc_endpoint, i, v, update_mode)
     IN /\ ifaces' = r.ifaces
        /\ pc_endpoint' = r.pc_endpoint
        /\ sent' = r.sent
        /\ last' = [NoLast EXCEPT !.op = "set_property", !.i = i, !.v = v,
                                  !.mode = update_mode,
                                  !.T = ifaces[i].properties_map,
                                  !.updates = r.updates]
  /\ invoked' = <<>>
  /\ steps' = steps + 1
  /\ UNCHANGED running
  /\ UNCHANGED <<objects, ia_endpoint, armed>>

\* DbusObjectServer::on_method_call, run by the armed method_filter
on_method_call(ec, m) ==
  /\ steps < MaxSteps
  /\ armed.method
  /\ LET r == Dispatch(ec, m, objects, ifaces, pc_endpoint)
     IN /\ ifaces' = r.ifaces
        /\ pc_endpoint' = r.pc_endpoint
        /\ sent' = r.sent
        /\ invoked' = r.invoked
        /\ armed' = [armed EXCEPT !.method = Rearmed(r.threw)]
        /\ last' = [NoLast EXCEPT !.op = "on_method_call", !.m = m, !.ec = ec,
                                  !.threw = r.threw]
  /\ steps' = steps + 1
  /\ UNCHANGED running
  /\ UNCHANGED <<objects, ia_endpoint>>

\* DbusObjectServer::on_introspect, run by the armed introspect_filter
on_introspect(m) ==
  /\ steps < MaxSteps
  /\ armed.introspect
  /\ sent' = <<new_return(m, <<get_xml_for_path(objects, ifaces, m.path)>>)>>
  /\ armed' = [armed EXCEPT !.introspect = TRUE]
  /\ invoked' = <<>>
  /\ last' = [NoLast EXCEPT !.op = "on_introspect", !.m = m]
  /\ steps' = steps + 1
  /\ UNCHANGED running
  /\ UNCHANGED <<objects, ifaces, pc_endpoint, ia_endpoint>>

\* DbusObjectServer::on_get_managed_objects, run by the armed
\* object_manager_filter
on_get_managed_objects(m) ==
  /\ steps < MaxSteps
  /\ armed.object_manager
  /\ sent' = <<new_return(m, <<ManagedObjects(objects, ifaces)>>)>>
  /\ armed' = [armed EXCEPT !.object_manager = TRUE]
  /\ invoked' = <<>>
  /\ last' = [NoLast EXCEPT !.op = "on_get_managed_objects", !.m = m]
  /\ steps' = steps + 1
  /\ UNCHANGED running
  /\ UNCHANGED <<objects, ifaces, pc_endpoint, ia_endpoint>>

\* std::make_shared<DbusInterface>(name, conn) by the program itself: an
\* interface no object holds yet
make_interface(name) ==
  /\ steps < MaxSteps
  /\ Len(ifaces) < MaxIfaces
  /\ ifaces' = Append(ifaces, NewInterface(name))
  /\ sent' = <<>>
  /\ invoked' = <<>>
  /\ last' = [NoLast EXCEPT !.op = "make_interface", !.i = Len(ifaces) + 1]
  /\ steps' = steps + 1
  /\ UNCHANGED running
  /\ UNCHANGED <<objects, pc_endpoint, ia_endpoint, armed>>

\* DbusObject::register_interface called by the program with an interface it
\* holds
RegisterInterface(o, i) ==
  /\ steps < MaxSteps
  /\ LET r == register_interface(objects, ifaces, ia_endpoint, o, i)
     IN /\ objects' = r.objects
        /\ ifaces' = r.ifaces
        /\ ia_endpoint' = r.ia_endpoint
        /\ sent' = r.sent
        /\ last' = [NoLast EXCEPT !.op = "register_interface", !.o = o, !.i = i]
  /\ invoked' = <<>>
  /\ steps' = steps + 1
  /\ UNCHANGED running
  /\ UNCHANGED <<pc_endpoint, armed>>

Next ==
  \/ \E name \in Paths : add_object(name)
  \/ \E o \in 1..Len(objects), name \in IfaceNames : add_interface(o, name)
  \/ \E i \in 1..Len(ifaces), throws \in BOOLEAN :
       register_method(i, UserMember, throws)
  \/ \E i \in 1..Len(ifaces), v \in SomeLists, mode \in Modes :
       SetProperties(i, v, mode)
  \/ \E i \in 1..Len(ifaces), e \in Entries, mode \in Modes :
       SetProperty(i, e[1], e[2], mode)
  \/ \E m \in Msgs : on_method_call(FALSE, m)
  \/ on_method_call(TRUE, NoMsg)
  \/ \E m \in IntrospectMsgs : on_introspect(m)
  \/ \E m \in ManagedMsgs : on_get_managed_objects(m)

Spec == Init /\ [][Next]_vars

\* the program building its registry: objects, interfaces made by the object
\* or by the program and registered on any object, and property writes
NextReg ==
  \/ \E name \in Paths : add_object(name)
  \/ \E o \in 1..Len(objects), name \in IfaceNames : add_interface(o, name)
  \/ \E name \in IfaceNames : make_interface(name)
  \/ \E o \in 1..Len(objects), i \in 1..Len(ifaces) : RegisterInterface(o, i)
  \/ \E i \in 1..Len(ifaces), e \in Entries, mode \in Modes :
       SetProperty(i, e[1], e[2], mode)

SpecReg == Init /\ [][NextReg]_vars

\* the statements of a filter callback in the order they are written: the
\* handling of the message with the reply it sends, then async_dispatch
CallbackOrderMut == <<"rearm", "handle">>
CallbackOrder == <<"handle", "rearm">>

\* the messages the predicate of each filter accepts, here the ones to one
\* path that read
FilterMsgs(f) ==
  CASE f = "introspect" -> {m \in IntrospectMsgs : m.path = PathA}
    [] f = "object_manager" -> ManagedMsgs
    [] OTHER -> {m \in Msgs : m.path = PathA /\ m.member # "Set"}

\* what the handling statements of the callback of filter f do with message m
Handle(f, m) ==
  CASE f = "introspect" ->
         [Quiet(ifaces, pc_endpoint) EXCEPT
            !.sent = <<new_return(m, <<get_xml_for_path(objects, ifaces, m.path)>>)>>]
    [] f = "object_manager" ->
         [Quiet(ifaces, pc_endpoint) EXCEPT
            !.sent = <<new_return(m, <<ManagedObjects(objects, ifaces)>>)>>]
    [] OTHER -> Dispatch(FALSE, m, objects, ifaces, pc_endpoint)

\* the connection's event loop is one thread: it starts a callback only when
\* no other callback is running
EventLoopIdle == \A f \in Filters : running[f].pc = 0

\* a filter hands a matching message to the callback given to async_dispatch,
\* once per async_dispatch
Deliver(f, m) ==
  /\ steps < MaxSteps
  /\ armed[f]
  /\ EventLoopIdle
  /\ armed' = [armed EXCEPT ![f] = FALSE]
  /\ running' = [running EXCEPT ![f] = [@ EXCEPT !.pc = 1, !.m = m,
                                                  !.begun = @ + 1]]
  /\ sent' = <<>>
  /\ invoked' = <<>>
  /\ last' = [NoLast EXCEPT !.op = "deliver", !.m = m]
  /\ steps' = steps + 1
  /\ UNCHANGED <<objects, ifaces, pc_endpoint, ia_endpoint>>

\* the callback of filter f runs its next statement; a fault of the handler
\* leaves the callback
Callback(f) ==
  /\ running[f].pc \in 1..Len(CallbackOrder)
  /\ LET stmt == CallbackOrder[running[f].pc]
         r == IF stmt = "handle" THEN Handle(f, running[f].m)
              ELSE Quiet(ifaces, pc_endpoint)
         next == IF r.threw # "" \/ running[f].pc = Len(CallbackOrder)
                 THEN 0 ELSE running[f].pc + 1
     IN /\ ifaces' = r.ifaces
        /\ pc_endpoint' = r.pc_endpoint
        /\ sent' = r.sent
        /\ invoked' = r.invoked
        /\ armed' = IF stmt = "rearm" THEN [armed EXCEPT ![f] = TRUE] ELSE armed
        /\ running' = [running EXCEPT ![f] =
                         [@ EXCEPT !.pc = next,
                                   !.completed = IF stmt = "handle" THEN @ + 1 ELSE @]]
        /\ last' = [NoLast EXCEPT !.op = stmt, !.m = running[f].m,
                                  !.threw = r.threw]
  /\ UNCHANGED <<objects, ia_endpoint, steps>>

NextLoop ==
  \/ \E name \in Paths : add_object(name)
  \/ \E f \in Filters : \E m \in FilterMsgs(f) : Deliver(f, m)
  \/ \E f \in Filters : Callback(f)

SpecLoop == Init /\ [][NextLoop]_vars

\* DbusInterface::register_method(name, handler) with a handler of the given
\* parameter types and result tuple
register_typed_method(i, name, in, out) ==
  /\ steps < MaxSteps
  /\ ifaces' = [ifaces EXCEPT ![i].dbus_methods =
                  Emplace(@, name, [kind |-> "typed", obj |-> 0, throws |-> "",
                                    in |-> in, out |-> out])]
  /\ ifaces' # ifaces
  /\ sent' = <<>>
  /\ invoked' = <<>>
  /\ last' = [NoLast EXCEPT !.op = "register_method", !.i = i]
  /\ steps' = steps + 1
  /\ UNCHANGED running
  /\ UNCHANGED <<objects, pc_endpoint, ia_endpoint, armed>>

\* a call of get_args() on method name of interface i; the list it returns is
\* kept in last.v
GetArgs(i, name) ==
  /\ steps < MaxSteps
  /\ name \in DOMAIN ifaces[i].dbus_methods
  /\ last' = [NoLast EXCEPT !.op = "get_args", !.i = i,
                            !.v = get_args(ifaces[i].dbus_methods[name]),
                            !.m = [NoMsg EXCEPT !.member = name]]
  /\ sent' = <<>>
  /\ invoked' = <<>>
  /\ steps' = steps + 1
  /\ UNCHANGED running
  /\ UNCHANGED <<objects, ifaces, pc_endpoint, ia_endpoint, armed>>

\* the method filter alone: objects are added and its callback runs with and
\* without an error code, on the messages to one path (the callback never
\* reads the message it is given with an error code)
NextErr ==
  \/ \E name \in Paths : add_object(name)
  \/ \E o \in 1..Len(objects) : add_interface(o, UserIface)
  \/ \E i \in 1..Len(ifaces), e \in Entries :
       SetProperty(i, e[1], e[2], "VALUE_CHANGE_ONLY")
  \/ \E ec \in BOOLEAN : \E m \in {x \in Msgs : x.path = PathA} :
       on_method_call(ec, m)

SpecErr == Init /\ [][NextErr]_vars

\* the server with the messages to one path: objects and interfaces are
\* added, properties are set by the program and by Properties.Set, and the
\* reading calls are answered
NextFrame ==
  \/ \E name \in Paths : add_object(name)
  \/ \E o \in 1..Len(objects) : add_interface(o, UserIface)
  \/ \E i \in 1..Len(ifaces), v \in SomeLists, mode \in Modes :
       SetProperties(i, v, mode)
  \/ \E i \in 1..Len(ifaces), e \in Entries, mode \in Modes :
       SetProperty(i, e[1], e[2], mode)
  \/ \E m \in {x \in PropsMsgs : x.path = PathA} : on_method_call(FALSE, m)
  \/ \E m \in IntrospectMsgs : on_introspect(m)
  \/ \E m \in ManagedMsgs : on_get_managed_objects(m)

SpecFrame == Init /\ [][NextFrame]_vars

\* one DbusInterface on its own: DbusInterface(interface_name, conn) has been
\* constructed and its owner sets properties, with every entry list
InitIface ==
  /\ objects = <<>>
  /\ ifaces = <<NewInterface(UserIface)>>
  /\ pc_endpoint = <<>>
  /\ ia_endpoint = <<>>
  /\ armed = [introspect |-> FALSE, object_manager |-> FALSE, method |-> FALSE]
  /\ sent = <<>>
  /\ invoked = <<>>
  /\ last = NoLast
  /\ steps = 0
  /\ running = [f \in Filters |-> Idle]

NextIface ==
  \/ \E v \in EntryLists, mode \in Modes : SetProperties(1, v, mode)
  \/ \E e \in Entries, mode \in Modes : SetProperty(1, e[1], e[2], mode)

SpecIface == InitIface /\ [][NextIface]_vars

\* one DbusInterface on its own: a method of any signature is registered on
\* it and asked for its arguments, any number of times
NextArgs ==
  \/ \E in \in TypeLists, out \in TypeLists :
       register_typed_method(1, UserMember, in, out)
  \/ GetArgs(1, UserMember)

SpecArgs == InitIface /\ [][NextArgs]_vars

(* ------------------------------ properties ----------------------------- *)
SetOps == {"set_properties", "set_property"}

EntryNames(E) == {E[k][1] : k \in 1..Len(E)}

\* table T overridden by the entries of E, the last entry of a name winning
Override(T, E) ==
  [n \in DOMAIN T \cup EntryNames(E) |->
     IF n \in EntryNames(E)
     THEN LET k == CHOOSE j \in 1..Len(E) :
                     /\ E[j][1] = n
                     /\ \A l \in (j + 1)..Len(E) : E[l][1] # n
          IN E[k][2]
     ELSE T[n]]

\* entry e is new to table T or changes the value T stores
Differs(T, e) == e[1] \notin DOMAIN T \/ T[e[1]] # e[2]

RECURSIVE DiffAgainst(_, _)
DiffAgainst(T, E) ==
  IF E = <<>> THEN <<>>
  ELSE (IF Differs(T, Head(E)) THEN <<Head(E)>> ELSE <<>>)
       \o DiffAgainst(T, Tail(E))

RECURSIVE DiffRunning(_, _, _)
DiffRunning(T, E, k) ==
  IF k > Len(E) THEN <<>>
  ELSE (IF Differs(Override(T, SubSeq(E, 1, k - 1)), E[k]) THEN <<E[k]>> ELSE <<>>)
       \o DiffRunning(T, E, k + 1)

SeqRange(q) == {q[k] : k \in 1..Len(q)}

\* C1 as stated: set_properties(E, ValueChangeOnly) on table T reports exactly
\* the entries of E whose name T lacks or whose value differs from the one T
\* stores, and leaves the table equal to T overridden by E.
C1_AsStated ==
  (last.op \in SetOps /\ last.mode = "VALUE_CHANGE_ONLY") =>
    /\ SeqRange(last.updates) = SeqRange(DiffAgainst(last.T, last.v))
    /\ ifaces[last.i].properties_map = Override(last.T, last.v)

\* C1 amended: the change-set is, in order, the entries of E whose name is
\* absent from, or whose value differs from the one stored in, the table as
\* the preceding entries of E have left it (T itself when the names of E are
\* distinct); afterwards the table equals T overridden by E.
C1_ChangeDiffing ==
  (last.op \in SetOps /\ last.mode = "VALUE_CHANGE_ONLY") =>
    /\ last.updates = DiffRunning(last.T, last.v, 1)
    /\ ifaces[last.i].properties_map = Override(last.T, last.v)
    /\ \A n \in DOMAIN last.T \ EntryNames(last.v) :
         ifaces[last.i].properties_map[n] = last.T[n]

C1_Witness ==
  /\ last.op = "set_properties"
  /\ last.mode = "VALUE_CHANGE_ONLY"
  /\ last.T = ("a" :> 1)
  /\ last.v = <<<<"a", 1>>, <<"c", 3>>>>
  /\ last.updates = <<<<"c", 3>>>>
  /\ ifaces[last.i].properties_map = ("a" :> 1) @@ ("c" :> 3)

\* C2: in mode Force every supplied entry is written to the property table:
\* afterwards get_properties_map() maps each supplied name to the value
\* supplied for it.
C2_ForceWrites ==
  (last.op \in SetOps /\ last.mode = "FORCE") =>
    \A n \in EntryNames(last.v) :
      /\ n \in DOMAIN ifaces[last.i].properties_map
      /\ ifaces[last.i].properties_map[n] = Override(last.T, last.v)[n]

\* C3: in mode Force the change-set the PropertiesChanged signal carries is
\* the supplied entry list, in order, unchanged entries included.
C3_ForceChangeSet ==
  (last.op \in SetOps /\ last.mode = "FORCE") =>
    /\ last.updates = last.v
    /\ \A k \in 1..Len(sent) :
         /\ sent[k].member = "PropertiesChanged"
         /\ sent[k].body[2] = last.v

C3_Witness ==
  /\ last.op = "set_properties"
  /\ last.mode = "FORCE"
  /\ last.T = ("a" :> 1)
  /\ last.v = <<<<"a", 1>>, <<"c", 3>>>>
  /\ Len(sent) = 1
  /\ sent[1].body[2] = <<<<"a", 1>>, <<"c", 3>>>>

\* C4: set_properties sends a PropertiesChanged signal if and only if the
\* change-set is non-empty: nothing when it is empty, otherwise exactly one
\* signal carrying (interface_name, change-set, empty invalidated list).
C4_SignalIffChanged ==
  last.op \in SetOps =>
    IF last.updates = <<>>
    THEN sent = <<>>
    ELSE /\ Len(sent) = 1
         /\ sent[1].member = "PropertiesChanged"
         /\ sent[1].body = <<ifaces[last.i].interface_name, last.updates, <<>>>>

\* C5: every PropertiesChanged signal of set_properties and every
\* InterfacesAdded signal of register_interface is addressed with the path of
\* the object that owns the interface.
C5_SignalPath ==
  /\ (last.op \in SetOps /\ sent # <<>>) =>
       sent[1].path = ifaces[last.i].object_name
  /\ (last.op \in {"add_object", "add_interface"} /\ sent # <<>>) =>
       sent[1].path = objects[last.o].object_name

\* C6: when a handler reached through Object::call raises a failure, the
\* caller receives an error reply and the method filter is re-armed.
C6_FaultAnswered ==
  (last.op = "on_method_call" /\ last.threw # "") =>
    /\ sent # <<>>
    /\ sent[Len(sent)] = new_error(last.m, last.threw)
    /\ armed.method

\* C7: after every invocation of on_introspect, on_get_managed_objects or
\* on_method_call the filter that ran the callback is armed again.
C7_AlwaysRearmed ==
  /\ last.op = "on_introspect" => armed.introspect
  /\ last.op = "on_get_managed_objects" => armed.object_manager
  /\ last.op = "on_method_call" => armed.method

Targets(m) == {k \in 1..Len(objects) : objects[k].object_name = m.path}

\* C8: a method call to path P, interface I, member M invokes at most one
\* handler, only the one registered as M on interface I of an object whose
\* path equals P, and does invoke it when that object is the one with path P.
C8_Routing ==
  (last.op = "on_method_call" /\ ~last.ec) =>
    /\ Len(invoked) <= 1
    /\ \A x \in SeqRange(invoked) :
         /\ x.member = last.m.member
         /\ x.member \in DOMAIN ifaces[x.iface].dbus_methods
         /\ ifaces[x.iface].interface_name = last.m.interface
         /\ \E k \in Targets(last.m) :
              /\ last.m.interface \in DOMAIN objects[k].interfaces
              /\ objects[k].interfaces[last.m.interface] = x.iface
    /\ \A k \in Targets(last.m) :
         (/\ Targets(last.m) = {k}
          /\ last.m.interface \in DOMAIN objects[k].interfaces
          /\ last.m.member \in
               DOMAIN ifaces[objects[k].interfaces[last.m.interface]].dbus_methods)
         => invoked = <<[iface |-> objects[k].interfaces[last.m.interface],
                         member |-> last.m.member]>>

C8_Witness ==
  /\ last.op = "on_method_call"
  /\ Len(objects) = 2
  /\ objects[1].object_name = PathA
  /\ objects[2].object_name = PathAb
  /\ last.m.path = PathAb
  /\ last.m.member = "Get"
  /\ invoked = <<[iface |-> objects[2].interfaces[PropsIface], member |-> "Get"]>>

\* no registered object with the message's path has the message's interface
\* with the message's member
Unrouted(m) ==
  ~ \E k \in 1..Len(objects) :
      /\ objects[k].object_name = m.path
      /\ m.interface \in DOMAIN objects[k].interfaces
      /\ m.member \in DOMAIN ifaces[objects[k].interfaces[m.interface]].dbus_methods

\* C9: a method call whose path, interface or member matches nothing
\* registered invokes no handler, sends no reply or error, leaves the registry
\* unchanged and still re-arms the method filter.
C9_UnroutedSilent ==
  [][(/\ steps' = steps + 1
      /\ last'.op = "on_method_call"
      /\ ~last'.ec
      /\ Unrouted(last'.m))
     => (/\ invoked' = <<>>
         /\ sent' = <<>>
         /\ objects' = objects
         /\ ifaces' = ifaces
         /\ pc_endpoint' = pc_endpoint
         /\ ia_endpoint' = ia_endpoint
         /\ armed'.method)]_vars

C9_Witness ==
  /\ last.op = "on_method_call"
  /\ ~last.ec
  /\ Len(objects) >= 1
  /\ last.m.path = objects[1].object_name
  /\ last.m.interface = UserIface
  /\ UserIface \in DOMAIN objects[1].interfaces
  /\ last.m.member = UnknownMember
  /\ sent = <<>>
  /\ invoked = <<>>
  /\ armed.method

\* C10: Properties.GetAll(I) returns the entries of the property table of
\* interface I of the object, in the table's iteration order, for every
\* registered I, and fails with InterfaceNotFound when I is not registered.
C10_GetAll ==
  (/\ last.op = "on_method_call"
   /\ last.m.interface = PropsIface
   /\ last.m.member = "GetAll"
   /\ invoked # <<>>) =>
    LET o == FindObject(objects, last.m.path, 1)
        I == last.m.args[1]
    IN IF I \in DOMAIN objects[o].interfaces
       THEN sent = <<new_return(last.m,
                       <<get_properties_map(ifaces, objects[o].interfaces[I])>>)>>
       ELSE last.threw = "interface not found"
\* the first-registered object with the path of m
FirstTarget(m) == CHOOSE k \in Targets(m) : \A j \in Targets(m) : k <= j

\* a call of member mb of the Properties interface has just run its handler
PropsCallStep(mb) ==
  /\ steps' = steps + 1
  /\ last'.op = "on_method_call"
  /\ ~last'.ec
  /\ last'.m.interface = PropsIface
  /\ last'.m.member = mb
  /\ invoked' # <<>>

NoSignal(msgs) == \A k \in 1..Len(msgs) : msgs[k].type # "signal"

\* C11: Properties.Get(I, p) returns the value stored under p in the table of
\* interface I; it fails with InterfaceNotFound when the object has no I and
\* with PropertyNotFound when I has no p; in all three outcomes no property
\* table changes and no signal is sent.
C11_Get ==
  [][PropsCallStep("Get") =>
       LET m == last'.m
           interfaces == objects[FirstTarget(m)].interfaces
       IN /\ ifaces' = ifaces
          /\ NoSignal(sent')
          /\ IF m.args[1] \notin DOMAIN interfaces
             THEN last'.threw = "interface not found"
             ELSE IF m.args[2] \notin
                       DOMAIN ifaces[interfaces[m.args[1]]].properties_map
                  THEN last'.threw = "property not found"
                  ELSE /\ last'.threw = ""
                       /\ sent' = <<new_return(m,
                            <<ifaces[interfaces[m.args[1]]].properties_map[m.args[2]]>>)>>
    ]_vars

C11_Witness ==
  /\ last.op = "on_method_call"
  /\ last.m.member = "Get"
  /\ last.m.args = <<UserIface, "c">>
  /\ invoked # <<>>
  /\ last.threw = ""
  /\ Len(sent) = 1
  /\ sent[1].type = "method_return"
  /\ sent[1].body = <<3>>
\* C12: for a registered interface I, Properties.Set(I, x, v) followed, with
\* no write to x in between, by Properties.Get(I, x) returns v, and
\* Properties.GetAll(I) then includes (x, v); Set on an interface that is not
\* registered fails with InterfaceNotFound and changes no table.
C12_SetRoundTrip ==
  [][PropsCallStep("Set") =>
       LET m == last'.m
           interfaces == objects[FirstTarget(m)].interfaces
           methods == ifaces'[invoked'[1].iface].dbus_methods
           get == Handler(methods["Get"], <<m.args[1], m.args[2]>>,
                          objects', ifaces', pc_endpoint')
           getall == Handler(methods["GetAll"], <<m.args[1]>>,
                             objects', ifaces', pc_endpoint')
       IN IF m.args[1] \in DOMAIN interfaces
          THEN /\ last'.threw = ""
               /\ get.threw = ""
               /\ get.result = <<m.args[3]>>
               /\ getall.threw = ""
               /\ <<m.args[2], m.args[3]>> \in SeqRange(getall.result[1])
          ELSE /\ last'.threw = "interface not found"
               /\ ifaces' = ifaces
    ]_vars
\* the characters of str up to the first "/"
RECURSIVE FirstSegment(_)
FirstSegment(str) ==
  IF str = <<>> \/ Head(str) = "/" THEN <<>>
  ELSE <<Head(str)>> \o FirstSegment(Tail(str))

\* the request path with the root normalised to the empty prefix
Prefix(path) == IF path = <<"/">> THEN <<>> ELSE path

\* object_name is a strict descendant of the request path
Descendant(object_name, path) ==
  /\ starts_with(object_name, Prefix(path) \o <<"/">>)
  /\ Len(object_name) > Len(Prefix(path)) + 1

ChildSegment(object_name, path) ==
  FirstSegment(SubSeq(object_name, Len(Prefix(path)) + 2, Len(object_name)))

NodeStubs(xml) == SelectSeq(xml, LAMBDA e : e.tag = "node")

\* C13: get_xml_for_path(P) emits a child <node> stub named s exactly when
\* some registered object's path begins with P + "/" and s is its segment
\* right below P, each such s once; an object whose path only has P as a
\* string prefix (/ab for /a) contributes no stub.
C13_NodeStubs ==
  last.op = "on_introspect" =>
    LET stubs == NodeStubs(sent[1].body[1])
    IN /\ \A j, k \in 1..Len(stubs) : stubs[j].name = stubs[k].name => j = k
       /\ {stubs[k].name : k \in 1..Len(stubs)} =
            {ChildSegment(objects[k].object_name, last.m.path) :
               k \in {j \in 1..Len(objects) :
                        Descendant(objects[j].object_name, last.m.path)}}
\* C14: the reply to GetManagedObjects lists every registered object once, in
\* registration order, under each object every interface of its interface
\* table, and under each interface every property with the value its table
\* holds at the time of the call, and nothing else.
C14_Snapshot ==
  last.op = "on_get_managed_objects" =>
    LET dict == sent[1].body[1]
    IN /\ Len(sent) = 1
       /\ sent[1].type = "method_return"
       /\ Len(dict) = Len(objects)
       /\ \A k \in 1..Len(objects) :
            LET interfaces == objects[k].interfaces
                il == dict[k][2]
            IN /\ dict[k][1] = objects[k].object_name
               /\ Len(il) = Cardinality(DOMAIN interfaces)
               /\ {il[j][1] : j \in 1..Len(il)} = DOMAIN interfaces
               /\ \A j \in 1..Len(il) :
                    LET pm == ifaces[interfaces[il[j][1]]].properties_map
                    IN /\ Len(il[j][2]) = Cardinality(DOMAIN pm)
                       /\ SeqRange(il[j][2]) = {<<n, pm[n]>> : n \in DOMAIN pm}

C14_Witness ==
  /\ last.op = "on_get_managed_objects"
  /\ Len(objects) = 1
  /\ DOMAIN objects[1].interfaces = {UserIface, PropsIface}
  /\ ifaces[objects[1].interfaces[UserIface]].properties_map = ("a" :> 1)
  /\ sent[1].body[1] =
       <<<<objects[1].object_name,
           <<<<UserIface, <<<<"a", 1>>>>>>, <<PropsIface, <<>>>>>>>>>>
RegisterOps == {"add_object", "add_interface", "register_interface"}

\* C15: every register_interface (so every add_interface, the one of the
\* constructor included) sends exactly one InterfacesAdded signal whose
\* payload is (the object's path, [(the interface's name, its property table
\* at that moment)]), leaves the interface's object_name equal to the object's
\* path and the interface stored in the object's table under its name.
C15_InterfacesAdded ==
  last.op \in RegisterOps =>
    LET object_name == objects[last.o].object_name
        interface_name == ifaces[last.i].interface_name
        pm == ifaces[last.i].properties_map
    IN /\ Len(sent) = 1
       /\ sent[1].type = "signal"
       /\ sent[1].member = "InterfacesAdded"
       /\ sent[1].body[1] = object_name
       /\ Len(sent[1].body[2]) = 1
       /\ sent[1].body[2][1][1] = interface_name
       /\ Len(sent[1].body[2][1][2]) = Cardinality(DOMAIN pm)
       /\ SeqRange(sent[1].body[2][1][2]) = {<<n, pm[n]>> : n \in DOMAIN pm}
       /\ ifaces[last.i].object_name = object_name
       /\ interface_name \in DOMAIN objects[last.o].interfaces
       /\ objects[last.o].interfaces[interface_name] = last.i

C15_Witness ==
  /\ last.op = "register_interface"
  /\ ifaces[last.i].properties_map = ("a" :> 1)
  /\ ifaces[last.i].interface_name = UserIface
  /\ sent = <<InterfacesAdded(sent[1].path, objects[last.o].object_name,
                              UserIface, <<<<"a", 1>>>>)>>
\* C16: in every reachable state every object's interface table holds, under
\* org.freedesktop.DBus.Properties, the built-in interface installed at
\* construction (the object's properties_iface), and that entry still routes
\* Get, GetAll and Set.
C16_BuiltinProperties ==
  \A o \in 1..Len(objects) :
     /\ PropsIface \in DOMAIN objects[o].interfaces
     /\ objects[o].interfaces[PropsIface] = objects[o].properties_iface
     /\ {"Get", "GetAll", "Set"} \subseteq
          DOMAIN ifaces[objects[o].interfaces[PropsIface]].dbus_methods
\* C17: at most one inbound message is being processed at any time; a filter
\* is armed again only once its callback has run the handler to completion,
\* reply included, so a filter begins a later call only after the handling of
\* every earlier call it delivered has ended.
C17_Sequential ==
  /\ Cardinality({f \in Filters : running[f].pc # 0}) <= 1
  /\ \A f \in Filters :
       /\ armed[f] => (running[f].pc = 0 /\ running[f].begun = running[f].completed)
       /\ running[f].begun <= running[f].completed + 1
       /\ running[f].begun > running[f].completed =>
            (running[f].pc # 0 /\ CallbackOrder[running[f].pc] = "handle")

C17_Witness ==
  /\ Len(objects) >= 1
  /\ last.op = "handle"
  /\ \E f \in Filters : running[f].begun = 2 /\ running[f].completed = 2
  /\ Len(sent) = 1
  /\ sent[1].type = "method_return"
\* C18: the set of property names of every interface only grows: no step
\* (set_property, set_properties in either mode, Properties.Set, Get, GetAll,
\* Introspect, GetManagedObjects) removes a name from a property table.
C18_NamesOnlyGrow ==
  [][\A i \in 1..Len(ifaces) :
       /\ i <= Len(ifaces')
       /\ DOMAIN ifaces[i].properties_map \subseteq DOMAIN ifaces'[i].properties_map]_vars

C18_Witness ==
  /\ last.op = "on_method_call"
  /\ last.m.member = "Set"
  /\ last.m.args = <<UserIface, "c", 3>>
  /\ last.threw = ""
  /\ \E i \in 1..Len(ifaces) :
       ifaces[i].properties_map = ("a" :> 1) @@ ("c" :> 3)
Decimal == <<"0", "1", "2", "3">>

\* the descriptor list of a handler with parameter types in and result
\* components out
ExpectedArgs(in, out) ==
  [k \in 1..(Len(in) + Len(out)) |->
     IF k <= Len(in)
     THEN [direction |-> "in", name |-> <<"arg_", Decimal[k]>>, type |-> in[k]]
     ELSE [direction |-> "out", name |-> <<"out_", Decimal[k - Len(in)]>>,
           type |-> out[k - Len(in)]]]

\* C19: for a handler with n parameters and a result tuple of m components,
\* every call of get_args() returns n descriptors "in" named arg_0..arg_{n-1}
\* followed by m descriptors "out" named out_0..out_{m-1}, in declaration
\* order with the signature of each type; n = 0 and m = 0 give the empty list.
C19_GetArgs ==
  last.op = "get_args" =>
    LET h == ifaces[last.i].dbus_methods[last.m.member]
    IN /\ last.v = ExpectedArgs(h.in, h.out)
       /\ (h.in = <<>> /\ h.out = <<>>) => last.v = <<>>

C19_Witness ==
  /\ last.op = "get_args"
  /\ ifaces[last.i].dbus_methods[last.m.member].in = <<"s", "i">>
  /\ ifaces[last.i].dbus_methods[last.m.member].out = <<"i">>
  /\ last.v = <<[direction |-> "in", name |-> <<"arg_", "0">>, type |-> "s"],
                [direction |-> "in", name |-> <<"arg_", "1">>, type |-> "i"],
                [direction |-> "out", name |-> <<"out_", "0">>, type |-> "i"]>>
\* object k has the interface and the member message m asks for
Serves(k, m) ==
  /\ m.interface \in DOMAIN objects[k].interfaces
  /\ m.member \in DOMAIN ifaces[objects[k].interfaces[m.interface]].dbus_methods

\* C20: when several registered objects have the path of a method call, only
\* the first-registered of them is called: at most one handler runs, it is a
\* handler of that first object, and when the first object lacks the
\* interface or the member no handler runs and nothing is sent, whatever the
\* later objects with that path have.
C20_FirstRegistered ==
  (last.op = "on_method_call" /\ ~last.ec /\ Targets(last.m) # {}) =>
    LET first == FirstTarget(last.m)
    IN /\ Len(invoked) <= 1
       /\ Serves(first, last.m) =>
            invoked = <<[iface |-> objects[first].interfaces[last.m.interface],
                         member |-> last.m.member]>>
       /\ ~Serves(first, last.m) => (invoked = <<>> /\ sent = <<>>)

C20_Witness ==
  /\ last.op = "on_method_call"
  /\ ~last.ec
  /\ Targets(last.m) = {1, 2}
  /\ ~Serves(1, last.m)
  /\ Serves(2, last.m)
  /\ invoked = <<>>
  /\ sent = <<>>
\* C21: when the callback of the method filter runs with an error code, no
\* handler is invoked, nothing is sent, no registry state changes, and the
\* method filter is armed again for the next method call.
C21_ErrorCode ==
  [][(last'.op = "on_method_call" /\ last'.ec) =>
       /\ invoked' = <<>>
       /\ sent' = <<>>
       /\ objects' = objects
       /\ ifaces' = ifaces
       /\ pc_endpoint' = pc_endpoint
       /\ ia_endpoint' = ia_endpoint
       /\ last'.threw = ""
       /\ armed'.method]_vars

C21_Witness ==
  /\ last.op = "on_method_call"
  /\ last.ec
  /\ last.m.interface = PropsIface
  /\ last.m.member = "Set"
  /\ last.m.args = <<UserIface, "a", 3>>
  /\ Targets(last.m) # {}
  /\ Serves(FirstTarget(last.m), last.m)
  /\ \E i \in 1..Len(ifaces) : ifaces[i].properties_map = ("a" :> 1)
  /\ invoked = <<>>
  /\ armed.method
\* the step that led to the primed state handled a reading call
ReadStep ==
  \/ last'.op \in {"on_introspect", "on_get_managed_objects"}
  \/ /\ last'.op = "on_method_call"
     /\ last'.m.interface = PropsIface
     /\ last'.m.member \in {"Get", "GetAll"}

\* the interfaces a Properties.Set message may write: the one its first
\* argument names on the object the call is routed to
SetTargets(m) ==
  IF Targets(m) = {} THEN {}
  ELSE LET o == FirstTarget(m)
       IN IF m.args[1] \in DOMAIN objects[o].interfaces
          THEN {objects[o].interfaces[m.args[1]]} ELSE {}

\* C22: handling Introspect, GetManagedObjects, Properties.Get or
\* Properties.GetAll leaves the object list, every interface table, method
\* table and property table unchanged and emits no signal; set_properties on
\* one interface (by the program or by Properties.Set) leaves the property
\* table of every other interface unchanged.
C22_Frame ==
  [][/\ (steps' = steps + 1 /\ ReadStep) =>
          (objects' = objects /\ ifaces' = ifaces /\ NoSignal(sent'))
     /\ (steps' = steps + 1 /\ last'.op \in SetOps) =>
          \A j \in 1..Len(ifaces) :
             j # last'.i => ifaces'[j].properties_map = ifaces[j].properties_map
     /\ (/\ steps' = steps + 1
         /\ last'.op = "on_method_call"
         /\ last'.m.interface = PropsIface
         /\ last'.m.member = "Set") =>
          \A j \in 1..Len(ifaces) :
             j \notin SetTargets(last'.m) =>
               ifaces'[j].properties_map = ifaces[j].properties_map]_vars

C22_Witness ==
  /\ last.op = "set_property"
  /\ Len(ifaces) >= 2
  /\ ifaces[last.i].properties_map = ("c" :> 3)
  /\ \E j \in 1..Len(ifaces) :
       /\ j # last.i
       /\ ifaces[j].interface_name = ifaces[last.i].interface_name
       /\ ifaces[j].properties_map = ("a" :> 1)
====
